---- MODULE Spec2Model ----
(***************************************************************************)
(* A model of redditgiveaway.py: the start-up sequence, the polling loop   *)
(* that drains the list of prize keys against the comments of one          *)
(* submission, and the final edit of the submission.                       *)
(*                                                                         *)
(* The environment is Reddit: a growing pool of comments, a wall clock,    *)
(* and calls that may raise.  The pool is read by the program only when it *)
(* fetches the comment list, so new comments and the passing of time are   *)
(* modelled at the loop head, before a fetch (everything that happened     *)
(* since the previous fetch, including during the sleeps).  The body of a  *)
(* comment whose author is deleted is never read.                          *)
(***************************************************************************)
EXTENDS Integers, Sequences, FiniteSets, TLC

VARIABLES
  pc,                   \* position of the script
  cfg,                  \* args: the parsed command line (and the key file behind args.keyfile)
  keys,                 \* keys: the lines of the key file not yet popped
  submission,           \* args.submission: <<>> is None (-r was given), <<u>> is a url
  sBound,               \* whether the name `s` is bound (line 143)
  authors,              \* authors
  checked_comment_ids,  \* checked_comment_ids
  awarded,              \* awarded: len(keys) at the start of the current cycle
  comments,             \* comments: what the for loop has still to visit of the ordered list
  pool,                 \* Reddit: the comments on the submission so far
  now,                  \* Reddit/wall clock, in days
  strings,              \* attributes of the strings module found present so far
  calls,                \* kinds of platform interaction that have happened
  sent,                 \* replies and private messages delivered, in order
  lastEval,             \* what the last pass of the for-loop body did
  tooNew                \* authors that failed the account-age check

vars == <<pc, cfg, keys, submission, sBound, authors, checked_comment_ids, awarded,
          comments, pool, now, strings, calls, sent, lastEval, tooNew>>

(***************************************************************************)
(* Bounds                                                                  *)
(***************************************************************************)
MaxKeys == 2
MaxComments == 2
MaxTime == 2

(***************************************************************************)
(* Data                                                                    *)
(***************************************************************************)
Username == "bot"
NoAuthor == "[deleted]"
Commenters == {"A", "B", Username}
Url == "url"

\* author.created_utc, in days: B's account is one day younger than the others
AccountCreated(a) == IF a = "B" THEN 1 ELSE 0

\* str.strip(): characters are code points
Whitespace == {9, 10, 11, 12, 13, 32}

RECURSIVE LStrip(_)
LStrip(s) ==
  IF s # <<>> /\ Head(s) \in Whitespace THEN LStrip(Tail(s)) ELSE s

RECURSIVE RStrip(_)
RStrip(s) ==
  IF s # <<>> /\ s[Len(s)] \in Whitespace THEN RStrip(SubSeq(s, 1, Len(s) - 1)) ELSE s

Strip(s) == RStrip(LStrip(s))

\* f.readlines(): line k of the key file, with its line terminator.
\* "A\n", " B \n", "\n" (a blank line), "D\n", ...
KeyFileLine(k) ==
  CASE k % 3 = 1 -> <<64 + k, 10>>
    [] k % 3 = 2 -> <<32, 64 + k, 32, 10>>
    [] OTHER     -> <<10>>

KeyFile(n) == [k \in 1..n |-> KeyFileLine(k)]

\* args.wait: <<>> is None, <<n>> is -w n
Waits == {<<>>, <<0>>, <<30>>}

\* the key file is unreadable, empty, or holds one line or MaxKeys lines
Configs ==
  { c \in [random: BOOLEAN, wait: Waits, keyword: BOOLEAN, reply: {"inline", "pm"},
           age: {1}, readable: BOOLEAN, nkeys: {0, 1, MaxKeys}] :
      /\ (~c.random => c.wait = <<>>)
      /\ (~c.readable => c.nkeys = 0) }

NoEval == [cid |-> 0, verdict |-> "NONE", kwChecked |-> FALSE, ageChecked |-> FALSE]

Init ==
  /\ pc = "start"
  /\ cfg \in Configs
  /\ keys = <<>>
  /\ submission \in {<<>>, <<Url>>}
  /\ sBound = FALSE
  /\ authors = {}
  /\ checked_comment_ids = {}
  /\ awarded = 0
  /\ comments = <<>>
  /\ pool = <<>>
  /\ now = 1
  /\ strings = {}
  /\ calls = {}
  /\ sent = <<>>
  /\ lastEval = NoEval
  /\ tooNew = {}

(***************************************************************************)
(* Start-up                                                                *)
(***************************************************************************)
\* (mutant) the test on args.random inverted
ConfigError_Inverted == ~cfg.random /\ (cfg.wait = <<>> \/ cfg.wait[1] = 0)

\* if args.random and not args.wait
ConfigError == cfg.random /\ (cfg.wait = <<>> \/ cfg.wait[1] = 0)

CheckArgs ==
  /\ pc = "start"
  /\ pc' = IF ConfigError THEN "cfgerr" ELSE "loadkeys"
  /\ UNCHANGED <<cfg, keys, submission, sBound, authors, checked_comment_ids, awarded,
                 comments, pool, now, strings, calls, sent, lastEval, tooNew>>

\* open(args.keyfile).readlines(); the IOError handler names the undefined
\* `keyfile`, so an unreadable file ends the script with a NameError.
LoadKeys ==
  /\ pc = "loadkeys"
  /\ IF cfg.readable
       THEN /\ keys' = KeyFile(cfg.nkeys)
            /\ pc' = "login"
       ELSE /\ keys' = keys
            /\ pc' = "crashed"
  /\ UNCHANGED <<cfg, submission, sBound, authors, checked_comment_ids, awarded,
                 comments, pool, now, strings, calls, sent, lastEval, tooNew>>

\* r = praw.Reddit(...); if args.reddit: exactly one of -s and -r is given
\* (a required, mutually exclusive group), so -r was given iff args.submission
\* is None here.
Login ==
  /\ pc = "login"
  /\ calls' = calls \cup {"login"}
  /\ pc' = IF submission = <<>> THEN "submit" ELSE "seed"
  /\ UNCHANGED <<cfg, keys, submission, sBound, authors, checked_comment_ids, awarded,
                 comments, pool, now, strings, sent, lastEval, tooNew>>

\* r.subreddit(args.reddit).submit(...): an APIException is logged and the
\* script goes on with args.submission still None; anything else raised while
\* the body is composed or posted (a missing strings attribute included) is
\* not caught.
SubmitOutcomes == {"ok", "api_exception", "other_exception"}

Submit(o) ==
  /\ pc = "submit"
  /\ submission' = IF o = "ok" THEN <<Url>> ELSE submission
  /\ pc' = IF o = "other_exception" THEN "crashed" ELSE "seed"
  /\ UNCHANGED <<cfg, keys, sBound, authors, checked_comment_ids, awarded,
                 comments, pool, now, strings, calls, sent, lastEval, tooNew>>

\* authors = set([args.username]); checked_comment_ids = set();
\* if args.random: time.sleep(args.wait * 60)
\* (mutant) the set starts empty
SeedAuthors_Empty == {}

\* set([args.username])
SeedAuthors == {Username}

Seed ==
  /\ pc = "seed"
  /\ authors' = SeedAuthors
  /\ checked_comment_ids' = {}
  /\ calls' = IF cfg.random THEN calls \cup {"sleep_wait"} ELSE calls
  /\ pc' = "loop"
  /\ UNCHANGED <<cfg, keys, submission, sBound, awarded,
                 comments, pool, now, strings, sent, lastEval, tooNew>>

(***************************************************************************)
(* Reddit                                                                  *)
(***************************************************************************)
\* Somebody comments on the submission.  kw: the body contains args.keyword
\* (only meaningful when a keyword is configured).
PostComment(a, kw) ==
  /\ pc = "loop"
  /\ keys # <<>>
  /\ Len(pool) < MaxComments
  /\ kw => cfg.keyword /\ a # NoAuthor
  /\ pool' = Append(pool, [id |-> Len(pool) + 1, author |-> a, kw |-> kw,
                           created_utc |-> now])
  /\ UNCHANGED <<pc, cfg, keys, submission, sBound, authors, checked_comment_ids,
                 awarded, comments, now, strings, calls, sent, lastEval, tooNew>>

\* A day passes.
Tick ==
  /\ pc = "loop"
  /\ keys # <<>>
  /\ now < MaxTime
  /\ now' = now + 1
  /\ UNCHANGED <<pc, cfg, keys, submission, sBound, authors, checked_comment_ids,
                 awarded, comments, pool, strings, calls, sent, lastEval, tooNew>>

(***************************************************************************)
(* Ordering                                                                *)
(***************************************************************************)
Perms(s) ==
  { [i \in 1..Len(s) |-> s[p[i]]] :
      p \in { q \in [1..Len(s) -> 1..Len(s)] :
                \A i, j \in 1..Len(s) : i # j => q[i] # q[j] } }

\* x placed behind every element whose key is not greater (a stable insertion)
RECURSIVE InsertByCreated(_, _)
InsertByCreated(x, s) ==
  IF s = <<>> \/ s[Len(s)].created_utc <= x.created_utc
    THEN Append(s, x)
    ELSE Append(InsertByCreated(x, SubSeq(s, 1, Len(s) - 1)), s[Len(s)])

\* (mutant) the list is left in the order the gateway returned it
SortByCreated_Unsorted(s) == s

\* comments.sort(key=lambda c: c.created_utc): ascending and stable
RECURSIVE SortByCreated(_)
SortByCreated(s) ==
  IF s = <<>> THEN <<>>
  ELSE InsertByCreated(s[Len(s)], SortByCreated(SubSeq(s, 1, Len(s) - 1)))

\* random.shuffle(comments) or comments.sort(...): the lists the cycle may scan
Ordered(list) == IF cfg.random THEN Perms(list) ELSE {SortByCreated(list)}

(***************************************************************************)
(* The polling loop                                                        *)
(***************************************************************************)
FetchOutcomes == {"ok", "exception"}

\* while len(keys) > 0: awarded = len(keys); s = r.submission(url=...);
\* s.comments.replace_more(limit=None); comments = s.comments.list(); order.
\* r.submission(url=None) raises before `s` is bound.
Fetch(o) ==
  /\ pc = "loop"
  /\ keys # <<>>
  /\ awarded' = IF submission # <<>> /\ o = "ok" THEN Len(keys) ELSE 0
  /\ calls' = calls \cup {"fetch"}
  /\ IF submission = <<>>
       THEN /\ pc' = "crashed"
            /\ UNCHANGED <<sBound, comments>>
       ELSE /\ sBound' = TRUE
            /\ IF o = "ok"
                 THEN /\ comments' \in UNION {Ordered(got) : got \in Perms(pool)}
                      /\ pc' = "scan"
                 ELSE /\ pc' = "crashed"
                      /\ UNCHANGED comments
  /\ UNCHANGED <<cfg, keys, submission, authors, checked_comment_ids,
                 pool, now, strings, sent, lastEval, tooNew>>

\* (mutant) the guard without `author.name not in authors`
PassesGuard_NoAuthorTest(c) ==
  /\ c.author # NoAuthor
  /\ c.id \notin checked_comment_ids

\* (mutant) the guard without `comment.id not in checked_comment_ids`
PassesGuard_NoSeenTest(c) ==
  /\ c.author # NoAuthor
  /\ c.author \notin authors

\* author is not None and author.name not in authors and
\* comment.id not in checked_comment_ids
PassesGuard(c) ==
  /\ c.author # NoAuthor
  /\ c.author \notin authors
  /\ c.id \notin checked_comment_ids

\* (mutant) `in` for `not in`
KeywordMissing_Inverted(c) == cfg.keyword /\ c.kw

\* args.keyword and args.keyword not in comment.body
KeywordMissing(c) == cfg.keyword /\ ~c.kw

\* (datetime.now() - min_account_age) < created_date
TooNew(a) == (now - cfg.age) < AccountCreated(a)

\* (mutant) the account-age check moved in front of the keyword check
Verdict_AgeBeforeKeyword(c) ==
  IF ~PassesGuard(c)
    THEN (IF c.author = NoAuthor THEN "SKIP_NO_AUTHOR" ELSE "SKIP_SEEN")
  ELSE IF TooNew(c.author) THEN "SKIP_TOO_NEW"
  ELSE IF KeywordMissing(c) THEN "SKIP_NO_KEYWORD"
  ELSE "ELIGIBLE"

\* what one pass of the for-loop body decides for comment c
Verdict(c) ==
  IF ~PassesGuard(c)
    THEN (IF c.author = NoAuthor THEN "SKIP_NO_AUTHOR" ELSE "SKIP_SEEN")
  ELSE IF KeywordMissing(c) THEN "SKIP_NO_KEYWORD"
  ELSE IF TooNew(c.author) THEN "SKIP_TOO_NEW"
  ELSE "ELIGIBLE"

\* (mutant) checked_comment_ids.add(comment.id) hoisted in front of the guard
SeenAfter_Always(c) == checked_comment_ids \cup {c.id}

\* checked_comment_ids.add(comment.id) is the first statement inside the guard
SeenAfter(c) ==
  IF PassesGuard(c) THEN checked_comment_ids \cup {c.id} ELSE checked_comment_ids

\* (mutant) authors.add(author.name) moved behind the age check
AuthorsAfter_AgeFirst(verdict, a) ==
  IF verdict = "ELIGIBLE" THEN authors \cup {a} ELSE authors

\* (mutant) authors.add(author.name) moved in front of the keyword check
AuthorsAfter_KeywordLast(verdict, a) ==
  IF verdict \in {"SKIP_NO_KEYWORD", "SKIP_TOO_NEW", "ELIGIBLE"}
    THEN authors \cup {a} ELSE authors

\* authors.add(author.name) sits behind the keyword check and before the age check
AuthorsAfter(verdict, a) ==
  IF verdict \in {"SKIP_TOO_NEW", "ELIGIBLE"} THEN authors \cup {a} ELSE authors

\* (mutant) the for loop without `if len(keys) == 0: break`
Scanning_NoBreak == pc = "scan" /\ comments # <<>>

\* for comment in comments: if len(keys) == 0: break
Scanning == pc = "scan" /\ comments # <<>> /\ keys # <<>>
Cur == Head(comments)

Evaluated(c, verdict) ==
  [cid |-> c.id, verdict |-> verdict,
   kwChecked |-> cfg.keyword /\ verdict \in {"SKIP_NO_KEYWORD", "SKIP_TOO_NEW", "ELIGIBLE"},
   ageChecked |-> verdict \in {"SKIP_TOO_NEW", "ELIGIBLE"}]

\* the guard is false: nothing happens
SkipGuard ==
  /\ Scanning
  /\ Verdict(Cur) \in {"SKIP_NO_AUTHOR", "SKIP_SEEN"}
  /\ checked_comment_ids' = SeenAfter(Cur)
  /\ authors' = AuthorsAfter(Verdict(Cur), Cur.author)
  /\ lastEval' = Evaluated(Cur, Verdict(Cur))
  /\ comments' = Tail(comments)
  /\ UNCHANGED <<pc, cfg, keys, submission, sBound, awarded, pool, now,
                 strings, calls, sent, tooNew>>

\* the keyword is required and missing: continue
SkipNoKeyword ==
  /\ Scanning
  /\ Verdict(Cur) = "SKIP_NO_KEYWORD"
  /\ checked_comment_ids' = SeenAfter(Cur)
  /\ authors' = AuthorsAfter(Verdict(Cur), Cur.author)
  /\ lastEval' = Evaluated(Cur, Verdict(Cur))
  /\ comments' = Tail(comments)
  /\ UNCHANGED <<pc, cfg, keys, submission, sBound, awarded, pool, now,
                 strings, calls, sent, tooNew>>

\* author.created_utc is fetched from Reddit and may raise (line 166, before
\* authors.add): not caught.  (When the script ends, its list and `awarded`
\* end with it: they are cleared.)
AccountFault ==
  /\ Scanning
  /\ Verdict(Cur) \in {"SKIP_TOO_NEW", "ELIGIBLE"}
  /\ checked_comment_ids' = SeenAfter(Cur)
  /\ calls' = calls \cup {"account"}
  /\ lastEval' = [cid |-> Cur.id, verdict |-> "FAULT", kwChecked |-> cfg.keyword,
                  ageChecked |-> FALSE]
  /\ pc' = "crashed"
  /\ comments' = <<>>
  /\ awarded' = 0
  /\ UNCHANGED <<cfg, keys, submission, sBound, authors, pool,
                 now, strings, sent, tooNew>>

\* the account is too new: the author is already in authors; continue
SkipTooNew ==
  /\ Scanning
  /\ Verdict(Cur) = "SKIP_TOO_NEW"
  /\ checked_comment_ids' = SeenAfter(Cur)
  /\ authors' = AuthorsAfter(Verdict(Cur), Cur.author)
  /\ calls' = calls \cup {"account"}
  /\ tooNew' = tooNew \cup {Cur.author}
  /\ lastEval' = Evaluated(Cur, Verdict(Cur))
  /\ comments' = Tail(comments)
  /\ UNCHANGED <<pc, cfg, keys, submission, sBound, awarded, pool, now,
                 strings, sent>>

(***************************************************************************)
(* The award (lines 172-182).  In code order: strings.prize_reply_message  *)
(* is looked up, keys.pop(0).strip() is evaluated, the template is         *)
(* formatted, and the message goes out as a reply (inline) or as a private *)
(* message followed by a generic reply (pm).  An AttributeError anywhere   *)
(* in the block ends the script with sys.exit(1); any other exception is   *)
(* not caught.  What the strings module holds is fixed for a run: an       *)
(* attribute found present once is present from then on.  The handler's    *)
(* logging.error (line 181) is recorded in calls as "log_missing_value".   *)
(***************************************************************************)
AllAwardOutcomes ==
  {"no_template", "bad_format", "format_raises", "no_title", "message_raises",
   "no_generic", "reply_raises", "ok"}

AwardOutcomes ==
  IF cfg.reply = "inline"
    THEN {"no_template", "bad_format", "format_raises", "reply_raises", "ok"}
    ELSE {"no_template", "bad_format", "format_raises", "no_title", "message_raises",
          "no_generic", "reply_raises", "ok"}

\* the attribute (or the template's well-formedness) the outcome finds missing
Lacking(o) ==
  CASE o = "no_template" -> {"prize_reply_message"}
    [] o \in {"bad_format", "format_raises"} -> {"format"}
    [] o = "no_title" -> {"reply_title"}
    [] o = "no_generic" -> {"generic_reply_message"}
    [] OTHER -> {}

\* keys.pop(0) has run: it is an argument of format(), evaluated after the
\* template has been looked up
Popped(o) == o # "no_template"

Formatted(o) == o \notin {"no_template", "bad_format", "format_raises"}

MessageTried(o) == cfg.reply = "pm" /\ Formatted(o) /\ o # "no_title"

\* the call that carries the prize returned
PrizeSent(o) ==
  IF cfg.reply = "inline" THEN o = "ok" ELSE o \in {"no_generic", "reply_raises", "ok"}

ReplyTried(o) ==
  IF cfg.reply = "inline" THEN Formatted(o) ELSE o \in {"reply_raises", "ok"}

Found(o) ==
  (IF Popped(o) THEN {"prize_reply_message"} ELSE {})
  \cup (IF Formatted(o) THEN {"format"} ELSE {})
  \cup (IF MessageTried(o) THEN {"reply_title"} ELSE {})
  \cup (IF cfg.reply = "pm" /\ ReplyTried(o) THEN {"generic_reply_message"} ELSE {})

\* keys.pop(0)
KeysAfterPop(ks) == Tail(ks)

\* keys.pop(0).strip()
Prize(ks) == Strip(Head(ks))

\* (mutant) args.reply is ignored: the prize message always goes out as a reply
Deliveries_AlwaysInline(c, o) ==
  IF PrizeSent(o)
    THEN << [kind |-> "reply", cid |-> c.id, to |-> c.author,
             created_utc |-> c.created_utc, prize |-> TRUE, code |-> Prize(keys)] >>
    ELSE <<>>

Deliveries(c, o) ==
  (IF PrizeSent(o)
     THEN << [kind |-> IF cfg.reply = "inline" THEN "reply" ELSE "pm",
              cid |-> c.id, to |-> c.author, created_utc |-> c.created_utc,
              prize |-> TRUE, code |-> Prize(keys)] >>
     ELSE <<>>)
  \o (IF cfg.reply = "pm" /\ o = "ok"
        THEN << [kind |-> "reply", cid |-> c.id, to |-> c.author,
                 created_utc |-> c.created_utc, prize |-> FALSE, code |-> <<>>] >>
        ELSE <<>>)

\* the outcomes in which an AttributeError is raised inside the try block
AttributeErrors == {"no_template", "bad_format", "no_title", "no_generic"}

\* (mutant) the handler logs the error and the for loop is left without sys.exit(1)
AfterAward_NoExit(o) ==
  IF o = "ok" \/ o \in AttributeErrors THEN "scan" ELSE "crashed"

\* where the script is after the try block: the next comment, sys.exit(1)
\* in the AttributeError handler, or an exception nobody catches
AfterAward(o) ==
  IF o = "ok" THEN "scan"
  ELSE IF o \in AttributeErrors THEN "aborted"
  ELSE "crashed"

Award(o) ==
  /\ Scanning
  /\ Verdict(Cur) = "ELIGIBLE"
  /\ o \in AwardOutcomes
  /\ Lacking(o) \cap strings = {}
  /\ checked_comment_ids' = SeenAfter(Cur)
  /\ authors' = AuthorsAfter(Verdict(Cur), Cur.author)
  /\ lastEval' = Evaluated(Cur, Verdict(Cur))
  /\ keys' = IF Popped(o) THEN KeysAfterPop(keys) ELSE keys
  /\ strings' = strings \cup Found(o)
  /\ sent' = sent \o Deliveries(Cur, o)
  /\ calls' = calls \cup {"account"}
                \cup (IF MessageTried(o) THEN {"message"} ELSE {})
                \cup (IF ReplyTried(o) THEN {"reply"} ELSE {})
                \cup (IF o \in AttributeErrors THEN {"log_missing_value"} ELSE {})
  /\ pc' = AfterAward(o)
  /\ IF o = "ok"
       THEN comments' = Tail(comments) /\ awarded' = awarded
       ELSE comments' = <<>> /\ awarded' = 0
  /\ UNCHANGED <<cfg, submission, sBound, pool, now, tooNew>>

\* the for loop ends (list exhausted, or len(keys) == 0: break), then
\* lines 184-187: if len(keys) > 0: time.sleep(args.poll)
\* The list, `awarded` and the record of the last pass are not read again
\* before the next cycle replaces them: they are cleared here.
\* (mutant) the sleep is taken whatever is left of keys
AfterCycle_AlwaysSleep == "sleep"

\* if len(keys) > 0: time.sleep(args.poll), then back to the while test
AfterCycle == IF keys # <<>> THEN "sleep" ELSE "loop"

EndCycle ==
  /\ pc = "scan"
  /\ comments = <<>> \/ keys = <<>>
  /\ pc' = AfterCycle
  /\ comments' = <<>>
  /\ awarded' = 0
  /\ lastEval' = NoEval
  /\ UNCHANGED <<cfg, keys, submission, sBound, authors, checked_comment_ids,
                 pool, now, strings, calls, sent, tooNew>>

\* time.sleep(args.poll)
Sleep ==
  /\ pc = "sleep"
  /\ pc' = "loop"
  /\ UNCHANGED <<cfg, keys, submission, sBound, authors, checked_comment_ids, awarded,
                 comments, pool, now, strings, calls, sent, lastEval, tooNew>>

(***************************************************************************)
(* After the loop                                                          *)
(***************************************************************************)
\* while len(keys) > 0 is false
ExitLoop ==
  /\ pc = "loop"
  /\ keys = <<>>
  /\ pc' = "finalize"
  /\ UNCHANGED <<cfg, keys, submission, sBound, authors, checked_comment_ids, awarded,
                 comments, pool, now, strings, calls, sent, lastEval, tooNew>>

EditOutcomes == {"ok", "api_exception", "other_exception"}

\* (mutant) the APIException of s.edit is not caught
AfterEdit_ApiFatal(o) == IF o = "ok" THEN "done" ELSE "crashed"

\* try: s.edit(...) except praw.exceptions.APIException: logger.warning(...)
\* and the script runs to its last line; any other exception is not caught
AfterEdit(o) == IF o = "other_exception" THEN "crashed" ELSE "done"

\* s.edit(...): `s` is unbound when the loop body never ran (NameError); an
\* APIException is logged as a warning ("log_edit_warning" in calls);
\* anything else is not caught.
Finalize(o) ==
  /\ pc = "finalize"
  /\ IF ~sBound
       THEN pc' = "crashed" /\ calls' = calls
       ELSE /\ calls' = calls \cup {"edit"}
                         \cup (IF o = "api_exception" THEN {"log_edit_warning"} ELSE {})
            /\ pc' = AfterEdit(o)
  /\ UNCHANGED <<cfg, keys, submission, sBound, authors, checked_comment_ids, awarded,
                 comments, pool, now, strings, sent, lastEval, tooNew>>

(***************************************************************************)
(* Specifications                                                          *)
(***************************************************************************)
Program ==
  \/ CheckArgs
  \/ LoadKeys
  \/ Login
  \/ \E o \in SubmitOutcomes : Submit(o)
  \/ Seed
  \/ \E o \in FetchOutcomes : Fetch(o)
  \/ SkipGuard
  \/ SkipNoKeyword
  \/ AccountFault
  \/ SkipTooNew
  \/ \E o \in AllAwardOutcomes : Award(o)
  \/ EndCycle
  \/ Sleep
  \/ ExitLoop
  \/ \E o \in EditOutcomes : Finalize(o)

Reddit ==
  \/ \E a \in Commenters \cup {NoAuthor}, kw \in BOOLEAN : PostComment(a, kw)
  \/ Tick

Next == Program \/ Reddit

Spec == Init /\ [][Next]_vars

\* the interpreter keeps running the script: a step of the program that is
\* possible is eventually taken
FairSpec == Spec /\ WF_vars(Program)

(***************************************************************************)
(* Observations used by the properties                                     *)
(***************************************************************************)
\* the key file has been read (line 103)
Loaded == pc \notin {"start", "cfgerr", "loadkeys"}

\* keys as line 103 left it
InitKeys == IF cfg.readable THEN KeyFile(cfg.nkeys) ELSE <<>>

IsPrize(m) == m.prize

\* the messages that carried a prize code to an author, in order
Awards == SelectSeq(sent, IsPrize)

Winners == {Awards[i].to : i \in 1..Len(Awards)}

\* number of keys.pop(0) so far
NPopped == Len(InitKeys) - Len(keys)

Faulted == pc \in {"aborted", "crashed"}

\* the comment the last pass of the loop body looked at
LastComment == pool[lastEval.cid]

(***************************************************************************)
(* C1  At-most-once award: no author is the recipient of more than one     *)
(* prize code, whatever comments the gateway returns (the same author      *)
(* commenting several times, in one cycle or across cycles, included).     *)
(***************************************************************************)
C1_AtMostOnceAward ==
  \A i, j \in 1..Len(Awards) : i # j => Awards[i].to # Awards[j].to

\* a winner's further, unseen comment has just been turned away while keys remain
C1_Witness ==
  /\ pc = "scan"
  /\ keys # <<>>
  /\ lastEval.verdict = "SKIP_SEEN"
  /\ lastEval.cid \notin checked_comment_ids
  /\ LastComment.author \in Winners

(***************************************************************************)
(* C2  No prize code is lost: every code of the initial queue is either    *)
(* still in the queue or has been delivered to an awarded author; in       *)
(* particular the code of a delivery attempt that failed is still queued.  *)
(***************************************************************************)
C2_NoCodeLost ==
  Loaded =>
    \A k \in 1..Len(InitKeys) :
      \/ k > NPopped
      \/ \E i \in 1..Len(Awards) : Awards[i].code = Strip(InitKeys[k])

(***************************************************************************)
(* C3  Queue monotonicity: the length of the queue never increases, every  *)
(* decrease is by exactly one, and each decrease coincides with exactly    *)
(* one successful award.                                                   *)
(***************************************************************************)
C3_QueueMonotone ==
  [][Loaded =>
       /\ Len(keys') <= Len(keys)
       /\ Len(keys') # Len(keys) =>
            Len(keys') = Len(keys) - 1 /\ Len(Awards') = Len(Awards) + 1
       /\ Len(Awards') # Len(Awards) =>
            Len(keys') = Len(keys) - 1 /\ Len(Awards') = Len(Awards) + 1]_vars

(***************************************************************************)
(* C4  Termination.  As claimed: once the gateway returns a list holding   *)
(* at least as many eligible comments from distinct authors (author        *)
(* present, not the bot, account old enough, keyword present when          *)
(* required) as there are prize codes, and no fault occurs, the run        *)
(* reaches COMPLETE.  It fails: an author turned away as too new stays in  *)
(* authors after the account has come of age, so such a comment counts as  *)
(* eligible and is never awarded.                                          *)
(***************************************************************************)
Complete == pc = "finalize"

EligibleAsClaimed(c) ==
  /\ c.author # NoAuthor
  /\ c.author # Username
  /\ ~(cfg.keyword /\ ~c.kw)
  /\ ~((now - cfg.age) < AccountCreated(c.author))

Listed == {comments[i] : i \in 1..Len(comments)}

C4_Supply ==
  /\ pc = "scan"
  /\ Cardinality({c.author : c \in {d \in Listed : EligibleAsClaimed(d)}}) >= Len(InitKeys)

C4_Termination == C4_Supply ~> (Complete \/ Faulted)

(***************************************************************************)
(* C4 (amended)  Once the gateway returns a list holding at least as many  *)
(* eligible comments, not yet seen and from distinct authors not yet in    *)
(* authors, as there are codes left in the queue, and no call raises, the  *)
(* run reaches COMPLETE.                                                   *)
(***************************************************************************)
FreshEligible(c) ==
  /\ EligibleAsClaimed(c)
  /\ c.author \notin authors
  /\ c.id \notin checked_comment_ids

C4_FreshSupply ==
  /\ pc = "scan"
  /\ Cardinality({c.author : c \in {d \in Listed : FreshEligible(d)}}) >= Len(keys)

C4_TerminationAmended == C4_FreshSupply ~> (Complete \/ Faulted)

\* the run has completed with every code of a two-line key file awarded
C4_Witness ==
  /\ Complete
  /\ Len(InitKeys) >= 2
  /\ Len(Awards) = Len(InitKeys)

(***************************************************************************)
(* C5  The keyword gate is retryable: an author whose evaluated comments   *)
(* so far all lacked the keyword is not in authors, and when a further     *)
(* comment of theirs with the keyword is evaluated (queue non-empty,       *)
(* account old enough, author not excluded) the front code is popped and   *)
(* delivered to them, unless a call raises and ends the run.               *)
(***************************************************************************)
CheckedComments == {pool[i] : i \in checked_comment_ids}

\* authors with an evaluated comment that lacked the required keyword
KwSkipped == IF cfg.keyword THEN {c.author : c \in {d \in CheckedComments : ~d.kw}} ELSE {}

\* authors with an evaluated comment that held it
KwPassed == {c.author : c \in {d \in CheckedComments : d.kw}}

C5_KeywordRetry ==
  /\ [](\A a \in KwSkipped \ KwPassed : a \notin authors)
  /\ [][(/\ Scanning
         /\ cfg.keyword /\ Cur.kw
         /\ Cur.author \in KwSkipped
         /\ Cur.author # NoAuthor
         /\ Cur.author \notin authors
         /\ Cur.id \notin checked_comment_ids
         /\ ~((now - cfg.age) < AccountCreated(Cur.author)))
        => \/ Faulted'
           \/ /\ keys' = Tail(keys)
              /\ Len(Awards') = Len(Awards) + 1
              /\ Awards'[Len(Awards')].to = Cur.author
              /\ Awards'[Len(Awards')].cid = Cur.id
              /\ Awards'[Len(Awards')].code = Strip(Head(keys))]_vars

\* an author whose earlier comment was skipped for the keyword has won
C5_Witness == \E i \in 1..Len(Awards) : Awards[i].to \in KwSkipped

(***************************************************************************)
(* C6  The age gate is permanent: an author rejected as too new is in      *)
(* authors from then on, is never awarded, and no later comment of theirs  *)
(* leads to another age check, however much time passes.                   *)
(***************************************************************************)
C6_AgeGatePermanent ==
  /\ [](tooNew \subseteq authors /\ tooNew \cap Winners = {})
  /\ [][(Scanning /\ Cur.author \in tooNew)
        => /\ lastEval'.cid = Cur.id
           /\ ~lastEval'.ageChecked
           /\ UNCHANGED <<keys, sent, authors, tooNew, calls>>]_vars

\* a further comment of a rejected author, posted unseen, is turned away
\* although the account has meanwhile reached the minimum age
C6_Witness ==
  /\ pc = "scan"
  /\ keys # <<>>
  /\ lastEval.verdict = "SKIP_SEEN"
  /\ lastEval.cid \notin checked_comment_ids
  /\ LastComment.author \in tooNew
  /\ ~((now - cfg.age) < AccountCreated(LastComment.author))

(***************************************************************************)
(* C7  Seen-set monotonicity: checked_comment_ids never loses an element,  *)
(* and a comment whose id is in it never passes the guard again: no        *)
(* keyword check, no age check, no award, and keys, authors and            *)
(* checked_comment_ids unchanged.                                          *)
(***************************************************************************)
C7_SeenMonotone ==
  [][/\ checked_comment_ids \subseteq checked_comment_ids'
     /\ (Scanning /\ Cur.id \in checked_comment_ids)
        => /\ lastEval' = [cid |-> Cur.id, verdict |-> "SKIP_SEEN",
                           kwChecked |-> FALSE, ageChecked |-> FALSE]
           /\ UNCHANGED <<keys, authors, checked_comment_ids, sent, tooNew, calls>>]_vars

\* a comment seen on an earlier poll, whose author is still not in authors,
\* has been fetched again and turned away
C7_Witness ==
  /\ pc = "scan"
  /\ lastEval.verdict = "SKIP_SEEN"
  /\ lastEval.cid \in checked_comment_ids
  /\ LastComment.author \notin authors

(***************************************************************************)
(* C8  Chronological FIFO: in chronological mode the awards of one poll    *)
(* cycle are made in ascending created_utc order, whatever order the       *)
(* gateway returned the comments in, and the k-th award of the run carries *)
(* the k-th code of the initial queue.                                     *)
(***************************************************************************)
C8_ChronologicalFifo ==
  /\ [](~cfg.random =>
          \A k \in 1..Len(Awards) : Awards[k].code = Strip(InitKeys[k]))
  /\ [][(/\ ~cfg.random
         /\ pc = "scan"
         /\ Len(Awards') > Len(Awards)
         /\ Len(Awards) > Len(InitKeys) - awarded)
        => Awards'[Len(Awards')].created_utc >= Awards[Len(Awards)].created_utc]_vars

\* two codes, two authors with different timestamps, both awarded in one
\* cycle, the earlier comment first; the queue is empty
C8_Witness ==
  /\ ~cfg.random
  /\ pc = "scan"
  /\ awarded = 2
  /\ keys = <<>>
  /\ Len(Awards) = 2
  /\ Awards[1].to # Awards[2].to
  /\ Awards[1].created_utc < Awards[2].created_utc
  /\ Awards[1].code = Strip(InitKeys[1])
  /\ Awards[2].code = Strip(InitKeys[2])

(***************************************************************************)
(* C9  A configuration error precedes everything: with --random and no -w  *)
(* the script goes from its start straight to exit(1): no login, no post,  *)
(* no fetch, no sleep, no delivery, and the key file is never read.        *)
(***************************************************************************)
C9_ConfigErrorFirst ==
  /\ []((cfg.random /\ cfg.wait = <<>>)
          => /\ pc \in {"start", "cfgerr"}
             /\ calls = {}
             /\ sent = <<>>
             /\ keys = <<>>
             /\ ~sBound)
  /\ [][(cfg.random /\ cfg.wait = <<>>) => (pc = "start" /\ pc' = "cfgerr")]_vars

C9_Witness ==
  /\ pc = "cfgerr"
  /\ cfg.random /\ cfg.wait = <<>>
  /\ cfg.readable /\ cfg.nkeys > 0
  /\ keys = <<>>

(***************************************************************************)
(* C10  As claimed: evaluating an unseen comment whose author is absent    *)
(* gives SKIP_NO_AUTHOR and leaves the comment id in checked_comment_ids   *)
(* (keys and authors unchanged).  It fails: the id is added only inside    *)
(* the guard, which an absent author does not pass.                        *)
(***************************************************************************)
C10_DeletedAuthorMarkedSeen ==
  [][(Scanning /\ Cur.author = NoAuthor /\ Cur.id \notin checked_comment_ids)
     => /\ lastEval'.verdict = "SKIP_NO_AUTHOR"
        /\ Cur.id \in checked_comment_ids'
        /\ UNCHANGED <<keys, authors>>]_vars

(***************************************************************************)
(* C10 (amended)  Evaluating an unseen comment whose author is absent      *)
(* gives SKIP_NO_AUTHOR and changes none of keys, authors and              *)
(* checked_comment_ids: the comment id is not marked seen.                 *)
(***************************************************************************)
C10_DeletedAuthorSkipped ==
  [][(Scanning /\ Cur.author = NoAuthor /\ Cur.id \notin checked_comment_ids)
     => /\ lastEval'.verdict = "SKIP_NO_AUTHOR"
        /\ lastEval'.cid = Cur.id
        /\ UNCHANGED <<keys, authors, checked_comment_ids>>]_vars

\* a comment of a deleted account has just been skipped and is still unseen
C10_Witness ==
  /\ pc = "scan"
  /\ lastEval.verdict = "SKIP_NO_AUTHOR"
  /\ lastEval.cid \notin checked_comment_ids

(***************************************************************************)
(* C11  A template fault is fatal and stops everything: once composing or  *)
(* delivering a prize message has raised an AttributeError (logged by the  *)
(* handler), the script has exited, and from the state it exited in (as    *)
(* from the state an uncaught exception leaves) nothing happens any more:  *)
(* no comment is evaluated, no code is popped, no reply or private message *)
(* is sent, no fetch, no sleep, and the submission is never edited.        *)
(***************************************************************************)
C11_TemplateFaultFatal ==
  /\ []("log_missing_value" \in calls => pc = "aborted")
  /\ [][Faulted => UNCHANGED <<pc, keys, sent, calls, lastEval, authors,
                               checked_comment_ids, sBound>>]_vars

\* the script has exited on a template fault with a code still queued and an
\* unseen comment of an author not yet in authors on the submission
C11_Witness ==
  /\ pc = "aborted"
  /\ "log_missing_value" \in calls
  /\ keys # <<>>
  /\ \E i \in 1..Len(pool) :
       /\ i \notin checked_comment_ids
       /\ pool[i].author \notin authors \cup {NoAuthor}

(***************************************************************************)
(* C12  A failure of the final edit is not fatal: when the loop has ended  *)
(* and s.edit is called, the script reaches its last line both when the    *)
(* edit succeeds and when it raises an APIException (logged as a warning), *)
(* and the edit, failed or not, changes none of keys, authors,             *)
(* checked_comment_ids and the awards made.                                *)
(***************************************************************************)
C12_EditFailureNonFatal ==
  /\ []("log_edit_warning" \in calls => pc = "done" /\ "edit" \in calls)
  /\ [][(pc = "finalize" /\ "edit" \in calls')
        => /\ pc' \in {"done", "crashed"}
           /\ "log_edit_warning" \in calls' => pc' = "done"
           /\ UNCHANGED <<keys, authors, checked_comment_ids, sent>>]_vars

\* the edit failed with an APIException after every code of the key file was
\* awarded, and the script has run to its end
C12_Witness ==
  /\ pc = "done"
  /\ "log_edit_warning" \in calls
  /\ Len(InitKeys) > 0
  /\ Len(Awards) = Len(InitKeys)

(***************************************************************************)
(* C13  Scanning stops the moment the queue empties: once the last line of *)
(* a non-empty key file has been popped, no further comment is evaluated   *)
(* (those left in the cycle's list included), checked_comment_ids and      *)
(* authors never change again, and no further delivery is attempted.       *)
(***************************************************************************)
Exhausted == Loaded /\ Len(InitKeys) > 0 /\ keys = <<>>

C13_StopWhenEmpty ==
  [][Exhausted
     => /\ UNCHANGED <<keys, authors, checked_comment_ids, sent, tooNew>>
        /\ lastEval' \in {lastEval, NoEval}
        /\ calls' \ calls \subseteq {"edit", "log_edit_warning"}]_vars

\* the last code has just been awarded and the comment next in the cycle's
\* list is an unseen one by an author not in authors
C13_Witness ==
  /\ pc = "scan"
  /\ Exhausted
  /\ Len(Awards) >= 1
  /\ comments # <<>>
  /\ PassesGuard(Head(comments))

(***************************************************************************)
(* C14  Finalize only on exhaustion: s.edit is called at most once in a    *)
(* run and only with keys empty; a poll cycle that ends with keys left is  *)
(* followed by the sleep and then by another fetch, and the cycle that     *)
(* empties keys is followed by neither a sleep nor a fetch before the      *)
(* finalizer.                                                              *)
(***************************************************************************)
C14_FinalizeOnExhaustion ==
  /\ []("edit" \in calls => keys = <<>> /\ pc \in {"done", "crashed"})
  /\ [][/\ "edit" \in calls => UNCHANGED <<pc, calls>>
        /\ (pc = "scan" /\ pc' # "scan" /\ ~Faulted')
             => pc' = (IF keys # <<>> THEN "sleep" ELSE "loop") /\ calls' = calls
        /\ pc = "sleep" => pc' = "loop" /\ calls' = calls /\ keys' = keys
        /\ (pc = "loop" /\ keys # <<>> /\ pc' # "loop")
             => pc' \in {"scan", "crashed"} /\ calls' = calls \cup {"fetch"}
        /\ (pc = "loop" /\ keys = <<>>)
             => pc' = "finalize" /\ calls' = calls
        /\ pc = "finalize" => pc' \in {"done", "crashed"} /\ keys' = <<>>]_vars

\* a cycle has ended with one of two codes awarded and the other still
\* queued: the script is in its sleep
C14_Witness ==
  /\ pc = "sleep"
  /\ Len(InitKeys) = 2
  /\ Len(keys) = 1
  /\ Len(Awards) = 1

(***************************************************************************)
(* C15  A keyword skip touches only the seen set: evaluating an unseen     *)
(* comment of a present author not in authors whose body lacks the         *)
(* required keyword gives SKIP_NO_KEYWORD, adds the comment id to          *)
(* checked_comment_ids and leaves keys and authors unchanged; the author's *)
(* account age is not looked at in that pass.                              *)
(***************************************************************************)
C15_KeywordSkipFrame ==
  [][(/\ Scanning
      /\ Cur.author # NoAuthor
      /\ Cur.author \notin authors
      /\ Cur.id \notin checked_comment_ids
      /\ cfg.keyword /\ ~Cur.kw)
     => /\ lastEval' = [cid |-> Cur.id, verdict |-> "SKIP_NO_KEYWORD",
                        kwChecked |-> TRUE, ageChecked |-> FALSE]
        /\ checked_comment_ids' = checked_comment_ids \cup {Cur.id}
        /\ UNCHANGED <<keys, authors, sent, tooNew, calls, pc>>]_vars

\* a comment without the keyword has been skipped; its author's account is
\* too new, which the pass did not find out
C15_Witness ==
  /\ pc = "scan"
  /\ lastEval.verdict = "SKIP_NO_KEYWORD"
  /\ lastEval.cid \in checked_comment_ids
  /\ (now - cfg.age) < AccountCreated(LastComment.author)
  /\ LastComment.author \notin authors \cup tooNew

(***************************************************************************)
(* C16  Delivery protocol per reply mode.  With --reply pm every award is  *)
(* a private message carrying the code to the awarded author, followed by  *)
(* a generic reply on the winning comment (unless that reply raises, which *)
(* ends the run), and no reply carries a code.  With --reply inline every  *)
(* award is exactly one reply on the winning comment carrying the code,    *)
(* and no private message is sent.                                         *)
(***************************************************************************)
C16_DeliveryProtocol ==
  IF cfg.reply = "pm"
    THEN \A i \in 1..Len(sent) :
           /\ sent[i].kind = "pm"
                => /\ sent[i].prize
                   /\ sent[i].to = pool[sent[i].cid].author
                   /\ IF i < Len(sent)
                        THEN /\ sent[i + 1].kind = "reply"
                             /\ sent[i + 1].cid = sent[i].cid
                        ELSE Faulted
           /\ sent[i].kind = "reply"
                => /\ ~sent[i].prize
                   /\ sent[i].code = <<>>
                   /\ i > 1
                   /\ sent[i - 1].kind = "pm"
                   /\ sent[i - 1].cid = sent[i].cid
    ELSE /\ \A i \in 1..Len(sent) :
              /\ sent[i].kind = "reply"
              /\ sent[i].prize
              /\ sent[i].to = pool[sent[i].cid].author
         /\ \A i, j \in 1..Len(sent) : i # j => sent[i].cid # sent[j].cid
         /\ "message" \notin calls

\* two awards in private-message mode: message, reply, message, reply
C16_Witness ==
  /\ cfg.reply = "pm"
  /\ Len(sent) = 4
  /\ ~Faulted
  /\ sent[1].kind = "pm" /\ sent[2].kind = "reply"
  /\ sent[3].kind = "pm" /\ sent[4].kind = "reply"
  /\ sent[1].to # sent[3].to

(***************************************************************************)
(* C17  As claimed: when the creation of the submission is rejected and    *)
(* there is no submission given on the command line, the run does not      *)
(* enter the polling loop: no poll cycle starts, no fetch is issued        *)
(* without a submission, and no key is popped.  It fails: the APIException *)
(* handler only logs, and the script goes on to the loop, where            *)
(* r.submission(url=None) raises.                                          *)
(***************************************************************************)
C17_NoEngineWithoutSubmission ==
  submission = <<>> =>
    /\ pc \notin {"scan", "sleep"}
    /\ "fetch" \notin calls
    /\ (Loaded => keys = InitKeys)

(***************************************************************************)
(* C18  The bot never awards itself: from the moment authors exists (line  *)
(* 132, before the loop) args.username is in it in every state, so a       *)
(* comment of the bot account never passes the guard: it gets no prize     *)
(* code and its account age is not looked at.                              *)
(***************************************************************************)
C18_BotNeverAwarded ==
  /\ [](/\ pc \in {"loop", "scan", "sleep", "finalize", "done", "aborted"}
             => Username \in authors
        /\ Username \notin Winners \cup tooNew)
  /\ [][(Scanning /\ Cur.author = Username)
        => /\ lastEval'.cid = Cur.id
           /\ lastEval'.verdict = "SKIP_SEEN"
           /\ ~lastEval'.ageChecked
           /\ UNCHANGED <<keys, sent, authors, calls>>]_vars

\* an unseen comment of the bot account, holding the keyword when one is
\* required, has been turned away while keys remain
C18_Witness ==
  /\ pc = "scan"
  /\ keys # <<>>
  /\ lastEval.verdict = "SKIP_SEEN"
  /\ lastEval.cid \notin checked_comment_ids
  /\ LastComment.author = Username
  /\ cfg.keyword => LastComment.kw

(***************************************************************************)
(* C19  As claimed: whenever the finalizer is reached, a poll cycle has    *)
(* run and bound the submission object `s` that the finalizer edits, also  *)
(* when the key file is empty.  It fails: with an empty key file the body  *)
(* of the while loop never runs, `s` is never assigned, and the finalizer  *)
(* ends in a NameError.                                                    *)
(***************************************************************************)
C19_FinalizerHasSubmission ==
  pc = "finalize" => sBound /\ "fetch" \in calls

====
